---- MODULE Spec2Model ----
(***************************************************************************)
(* Model of python/skymakercam/proxy.py: the Proxy / _ProxyMethod command  *)
(* handles, the coroutine _ProxyMethod.__call__ (send under wait_for, then *)
(* optionally await the command), invoke (single and fan-out), unpack,     *)
(* _stringToException and DictObject.                                      *)
(*                                                                         *)
(* Python values are records with a class tag: data values are             *)
(* [cls, items], exceptions are [cls, args, errors].  A reply body (a dict *)
(* in insertion order) is a sequence of <<key, value>> pairs with distinct *)
(* keys; its values are data values, scalars being PyStr(s).               *)
(***************************************************************************)
EXTENDS Integers, Sequences, FiniteSets, TLC

\* ---------------------------------------------------------------- bounds
MaxCalls == 3          \* most pending calls handed to one invoke
MaxTimeout == 1        \* largest timeout a call is given, in ticks
MaxInterim == 1        \* most non-terminal replies the remote sends in all
RecursionLimit == 3    \* depth at which the interpreter raises RecursionError

\* ------------------------------------------------------- Python data values
NoneVal == [cls |-> "NoneType", items |-> <<>>]

PyStr(s) == [cls |-> "str", items |-> <<s>>]

\* the text of a str value
StrOf(v) == v.items[1]

PyList(xs) == [cls |-> "list", items |-> xs]

PyDict(d) == [cls |-> "dict", items |-> d]

\* ---------------------------------------------------------- dict operations
Keys(d) == [i \in 1..Len(d) |-> d[i][1]]

Values(d) == [i \in 1..Len(d) |-> d[i][2]]

HasKey(d, k) == \E i \in 1..Len(d) : d[i][1] = k

Lookup(d, k) == d[CHOOSE i \in 1..Len(d) : d[i][1] = k][2]

\* --------------------------------------------------------------- exceptions
NoExc == [cls |-> "", args |-> <<>>, errors |-> <<>>]

PyExc(c, a) == [cls |-> c, args |-> a, errors |-> <<>>]

\* ProxyException(errors): the list is the exception's single argument.
ProxyException(errors) ==
    [cls |-> "ProxyException", args |-> <<>>, errors |-> errors]

\* ProxyPlainMessagException(errstr): args is ((errstr,),); the strings the
\* exception carries are listed flat.
ProxyPlainMessagException(errstr) == PyExc("ProxyPlainMessagException", <<errstr>>)

NoneExc == PyExc("NoneType", <<>>)

\* what asyncio.wait_for raises when the timeout expires
TimeoutError == PyExc("TimeoutError", <<>>)

IsException(v) == v.cls \notin {"NoneType", "int"}

\* The error strings a remote command may put in the `error' field, one per
\* way eval() can treat a string.
ErrStrings ==
    {"ValueError('bad exposure')",   \* an exception constructor
     "camera not connected",         \* does not parse: SyntaxError
     "camera.offline",               \* parses, evaluation raises NameError
     "42",                           \* evaluates to a value that is no exception
     "__import__('os').remove('frame.fits')"}   \* a call with an effect

\* eval(errstr): the value, or the exception eval raises.
Eval(errstr) ==
    CASE errstr = "ValueError('bad exposure')" ->
           [raised |-> FALSE, v |-> PyExc("ValueError", <<"bad exposure">>)]
      [] errstr = "camera not connected" ->
           [raised |-> TRUE, v |-> PyExc("SyntaxError", <<"invalid syntax">>)]
      [] errstr = "camera.offline" ->
           [raised |-> TRUE, v |-> PyExc("NameError", <<"name 'camera' is not defined">>)]
      [] errstr = "42" ->
           [raised |-> FALSE, v |-> PyExc("int", <<"42">>)]
      [] errstr = "__import__('os').remove('frame.fits')" ->
           [raised |-> FALSE, v |-> NoneExc]

\* what evaluating errstr does besides producing Eval(errstr)
EvalEffects(errstr) ==
    IF errstr = "__import__('os').remove('frame.fits')"
    THEN {"os.remove('frame.fits')"}
    ELSE {}

_stringToException(errstr) ==
    LET e == Eval(errstr) IN
    IF ~e.raised THEN e.v
    ELSE IF e.v.cls = "SyntaxError" THEN ProxyPlainMessagException(errstr)
    ELSE PyExc("Exception",
               <<"Unexpected exception in parsing exception string", e.v.args[1]>>)

\* `raise v': a value that is no exception raises TypeError instead.
RaiseOf(v) ==
    IF IsException(v) THEN v
    ELSE PyExc("TypeError", <<"exceptions must derive from BaseException">>)

\* --------------------------------------------------------------- DictObject
\* DictObject(d), d the <<key, value>> pairs of a dict: one attribute per key.
RECURSIVE DictObject(_)

\* DictObject(x) if isinstance(x, dict) else x
WrapElement(x) == IF x.cls = "dict" THEN DictObject(x.items) ELSE x

WrapValueShallow(b) == b

\* the attribute value set for the dict value b: a list or tuple becomes a
\* list whose dict elements are wrapped, anything else is wrapped itself
WrapValue(b) ==
    IF b.cls \in {"list", "tuple"}
    THEN PyList([i \in 1..Len(b.items) |-> WrapElement(b.items[i])])
    ELSE WrapElement(b)

DictObject(d) ==
    [cls |-> "DictObject",
     items |-> [i \in 1..Len(d) |-> <<d[i][1], WrapValue(d[i][2])>>]]

\* ------------------------------------------------------------ call outcomes
Pending == [kind |-> "pending", exc |-> NoExc, val |-> NoneVal]

Returned(v) == [kind |-> "return", exc |-> NoExc, val |-> v]

Raised(e) == [kind |-> "raise", exc |-> e, val |-> NoneVal]

\* ------------------------------------------------------------ reply handles
\* CommandStatus.did_fail
did_fail(status) == status = "FAILED"

is_done(status) == status \in {"DONE", "FAILED"}

NoCommand == [status |-> "NONE", replies |-> <<>>]

\* r.replies[-1].body, guarded by the callers against an empty list
LastBody(r) == r.replies[Len(r.replies)]

IndexError == PyExc("IndexError", <<"list index out of range">>)

KeyError(k) == PyExc("KeyError", <<k>>)

\* the value invoke returns for one reply handle (lines 156-157, 163-164)
BodyResult(r, raw) == IF raw THEN PyDict(LastBody(r)) ELSE DictObject(LastBody(r))

\* ------------------------------------------------------------------- invoke
\* The loop of lines 147-154.  hasErrors is reset on every iteration, so after
\* the loop it tells whether the last reply handle failed.
RECURSIVE ErrorsLoop(_, _, _, _)
ErrorsLoop(ret, k, errors, hasErrors) ==
    IF k > Len(ret)
    THEN [exc |-> NoExc, errors |-> errors, hasErrors |-> hasErrors]
    ELSE LET r == ret[k] IN
         IF did_fail(r.status)
         THEN IF Len(r.replies) = 0
              THEN [exc |-> IndexError, errors |-> errors, hasErrors |-> TRUE]
              ELSE IF ~HasKey(LastBody(r), "error")
              THEN [exc |-> KeyError("error"), errors |-> errors, hasErrors |-> TRUE]
              ELSE ErrorsLoop(ret, k + 1,
                              Append(errors, _stringToException(StrOf(Lookup(LastBody(r), "error")))),
                              TRUE)
         ELSE ErrorsLoop(ret, k + 1, Append(errors, NoneExc), FALSE)

InvokeFanOutFirstError(ret, raw) ==
    LET loop == ErrorsLoop(ret, 1, <<>>, FALSE) IN
    IF loop.exc # NoExc THEN Raised(loop.exc)
    ELSE IF loop.hasErrors
    THEN Raised(ProxyException(SelectSeq(loop.errors, LAMBDA e : e # NoneExc)))
    ELSE IF \E k \in 1..Len(ret) : Len(ret[k].replies) = 0 THEN Raised(IndexError)
    ELSE Returned(PyList([k \in 1..Len(ret) |-> BodyResult(ret[k], raw)]))

\* invoke with more than one argument, given the gathered reply handles
InvokeFanOut(ret, raw) ==
    LET loop == ErrorsLoop(ret, 1, <<>>, FALSE) IN
    IF loop.exc # NoExc THEN Raised(loop.exc)
    ELSE IF loop.hasErrors THEN Raised(ProxyException(loop.errors))
    ELSE IF \E k \in 1..Len(ret) : Len(ret[k].replies) = 0 THEN Raised(IndexError)
    ELSE Returned(PyList([k \in 1..Len(ret) |-> BodyResult(ret[k], raw)]))

\* invoke with one argument, given the awaited reply handle
InvokeSingle(ret, raw) ==
    IF did_fail(ret.status)
    THEN IF Len(ret.replies) = 0 THEN Raised(IndexError)
         ELSE IF ~HasKey(LastBody(ret), "error") THEN Raised(KeyError("error"))
         ELSE Raised(RaiseOf(_stringToException(StrOf(Lookup(LastBody(ret), "error")))))
    ELSE IF Len(ret.replies) = 0 THEN Raised(IndexError)
         ELSE Returned(BodyResult(ret, raw))

invoke(argv, raw) ==
    IF Len(argv) > 1 THEN InvokeFanOut(argv, raw) ELSE InvokeSingle(argv[1], raw)

\* ------------------------------------------------------------------- unpack
UnpackKeys(cmd, argv) ==
    LET ret == invoke(<<cmd>>, TRUE) IN
    IF ret.kind = "raise" THEN ret
    ELSE LET d == ret.val.items IN
         IF Len(d) = 0 THEN Returned(NoneVal)
         ELSE IF Len(d) = 1 THEN Returned(PyStr(Keys(d)[1]))
         ELSE IF Len(argv) > 1
         THEN Returned(PyList([i \in 1..Len(argv) |-> PyStr(argv[i])]))
         ELSE Returned(PyList([i \in 1..Len(d) |-> PyStr(Keys(d)[i])]))

UnpackIgnoresStatus(cmd, argv) ==
    IF Len(cmd.replies) = 0 THEN Raised(IndexError)
    ELSE LET d == LastBody(cmd) IN
         IF Len(d) = 0 THEN Returned(NoneVal)
         ELSE IF Len(d) = 1 THEN Returned(Values(d)[1])
         ELSE IF Len(argv) > 1 /\ \A i \in 1..Len(argv) : HasKey(d, argv[i])
         THEN Returned(PyList([i \in 1..Len(argv) |-> Lookup(d, argv[i])]))
         ELSE Returned(PyList(Values(d)))

unpack(cmd, argv) ==
    LET ret == invoke(<<cmd>>, TRUE) IN
    IF ret.kind = "raise" THEN ret
    ELSE LET d == ret.val.items IN
         IF Len(d) = 0 THEN Returned(NoneVal)
         ELSE IF Len(d) = 1 THEN Returned(Values(d)[1])
         ELSE IF Len(argv) > 1
         THEN IF \E i \in 1..Len(argv) : ~HasKey(d, argv[i])
              THEN Raised(KeyError(argv[CHOOSE i \in 1..Len(argv) :
                                          /\ ~HasKey(d, argv[i])
                                          /\ \A j \in 1..(i - 1) : HasKey(d, argv[j])]))
              ELSE Returned(PyList([i \in 1..Len(argv) |-> Lookup(d, argv[i])]))
         ELSE Returned(PyList(Values(d)))

\* ------------------------------------------------------ Proxy, _ProxyMethod
NoHandle == [amqpc |-> "", consumer |-> "", command |-> ""]

\* _ProxyMethod(amqpc, consumer, command)
ProxyMethod(amqpc, consumer, command) ==
    [amqpc |-> amqpc, consumer |-> consumer, command |-> command]

\* Proxy.__getattr__
Proxy__getattr__(self, command) == ProxyMethod(self.amqpc, self.consumer, command)

\* _ProxyMethod.__getattr__(self, item), entered at interpreter depth `depth'.
\* Evaluating the call's arguments reads self.func; func is no slot, so the
\* read enters __getattr__ again.  Had it returned, the constructor would
\* reject the keyword `func'.
RECURSIVE ProxyMethod__getattr__(_, _, _)
ProxyMethod__getattr__(self, item, depth) ==
    IF depth > RecursionLimit
    THEN [kind |-> "raise", handle |-> NoHandle,
          exc |-> PyExc("RecursionError", <<"maximum recursion depth exceeded">>)]
    ELSE LET func == ProxyMethod__getattr__(self, "func", depth + 1) IN
         IF func.kind = "raise" THEN func
         ELSE [kind |-> "raise", handle |-> NoHandle,
               exc |-> PyExc("TypeError", <<"unexpected keyword argument 'func'">>)]

\* str.lower on the command names used
lower(s) == CASE s = "Expose" -> "expose" [] OTHER -> s

RECURSIVE Opts(_)
\* list(chain.from_iterable(('--'+k, v) for k, v in kwargs.items()))
Opts(kwargs) ==
    IF Len(kwargs) = 0 THEN <<>>
    ELSE <<<<"--", kwargs[1][1]>>, <<kwargs[1][2]>>>> \o Opts(Tail(kwargs))

\* the arguments of self._amqpc.send_command in __call__ (line 61)
SendCommand(self, args, kwargs, callback) ==
    [amqpc |-> self.amqpc, consumer |-> self.consumer,
     command |-> lower(self.command),
     args |-> [i \in 1..Len(args) |-> <<args[i]>>] \o Opts(kwargs),
     callback |-> callback]

\* the keyword arguments __call__ binds to its own parameters (lines 52-59)
CallOptions == {"blocking", "callback", "timeout"}

KwargsAll(keywords) == keywords

\* **kwargs of __call__: the keyword arguments of the call that are none of
\* its own parameters, in call order
Kwargs(keywords) == SelectSeq(keywords, LAMBDA p : p[1] \notin CallOptions)

WithinTimeoutInclusive(t, timeout) == t <= timeout

\* asyncio.wait_for(..., timeout) at time t after the call: the awaited
\* send_command may still complete.  With timeout <= 0 wait_for cancels it
\* before it has run.
WithinTimeout(t, timeout) == t < timeout

SendStartsAlways(timeout) == TRUE

\* whether wait_for lets send_command run at all
SendStarts(timeout) == timeout > 0

AfterSendNeverWaits(blocking) == "returned"

\* line 62: await the command when blocking, else hand it back as it is
AfterSend(blocking) == IF blocking THEN "awaiting" ELSE "returned"

\* ---------------------------------------------------------------- scenario
Consumers == {"lvm.sci.agcam"}

CommandNames == {"Expose"}

AttrNames == {"start", "Abort"}

\* Proxy(consumer, amqpc)
Proxy(consumer, amqpc) == [consumer |-> consumer, amqpc |-> amqpc]

InterimBody == << <<"text", PyStr("exposing")>> >>

ErrorBody(errstr) == << <<"error", PyStr(errstr)>> >>

\* A body with a mapping inside a mapping.
NestedBody ==
    << <<"x", PyDict(<< <<"time", PyStr("5")>>,
                        <<"filter", PyDict(<< <<"name", PyStr("r")>> >>)>> >>)>>,
       <<"y", PyStr("2")>> >>

\* A body with sequences of mappings and scalars, the first mapping holding a
\* sequence of mappings itself.
FramesBody ==
    << <<"x", PyList(<< PyDict(<< <<"id", PyStr("1")>>,
                                   <<"stars", PyList(<< PyDict(<< <<"flux", PyStr("9")>> >>) >>)>> >>),
                         PyStr("dark"),
                         PyDict(<< <<"id", PyStr("2")>> >>) >>)>>,
       <<"y", PyList(<<>>)>> >>

\* Bodies of the terminal reply of a command that succeeds.  A fan-out draws
\* from two of them, enough for sibling calls to differ.
OkBodies(n) ==
    IF n = 1
    THEN {<<>>,
          << <<"x", PyStr("5")>> >>,
          << <<"x", PyStr("1")>>, <<"y", PyStr("2")>> >>,
          << <<"y", PyStr("2")>>, <<"x", PyStr("1")>> >>,
          << <<"x", PyStr("1")>>, <<"y", PyStr("2")>>, <<"z", PyStr("3")>> >>,
          NestedBody, FramesBody}
    ELSE {<< <<"x", PyStr("5")>> >>, << <<"x", PyStr("1")>>, <<"y", PyStr("2")>> >>}

\* Bodies of the terminal reply of a command that fails; command.fail() with
\* no error text leaves the body empty.
FailBodies(n) ==
    IF n = 1
    THEN {ErrorBody(s) : s \in ErrStrings} \cup {<<>>}
    ELSE {ErrorBody("ValueError('bad exposure')"), ErrorBody("camera not connected")}

\* field names handed to unpack
UnpackNames == {<<>>, <<"x">>, <<"y">>, <<"y", "x">>, <<"x", "y">>}

\* timeouts handed to __call__: none at all, or MaxTimeout ticks
Timeouts == {0, MaxTimeout}

\* positional and named arguments of call i
CallArgs(i) == IF i = 1 THEN <<"5.0">> ELSE <<"5.0", "dark">>

CallKwargs(i) == IF i = 2 THEN << <<"binning", "2">> >> ELSE <<>>

\* all keyword arguments of call i, as written at the call site
CallKeywords(c, i) ==
    << <<"blocking", c.blocking>> >> \o CallKwargs(i) \o << <<"timeout", c.timeout>> >>

\* ------------------------------------------------------------------- state
VARIABLES
    handle,     \* the _ProxyMethod the calls are made on
    op,         \* the aggregation the caller runs: invoke or unpack, raw, names
    calls,      \* per pending call: blocking and timeout of __call__
    pc,         \* per pending call: where its coroutine is
    cmd,        \* per pending call: the reply handle (clu Command)
    now,        \* the clock, in ticks since the calls were started
    sent,       \* per pending call: the commands it handed to the transport
    ipc,        \* where invoke / unpack is
    seen,       \* the reply handles as invoke read them
    outcome,    \* what invoke / unpack returned or raised
    ext         \* result of an attribute access on the handle

vars == <<handle, op, calls, pc, cmd, now, sent, ipc, seen, outcome, ext>>

N == Len(calls)

Init ==
    /\ \E c \in Consumers, name \in CommandNames :
         handle = Proxy__getattr__(Proxy(c, "amqpc"), name)
    \* the calls of one invoke are made with the same blocking and timeout
    /\ \E n \in 1..MaxCalls, t \in Timeouts, b \in BOOLEAN :
         calls = [i \in 1..n |-> [blocking |-> b, timeout |-> t]]
    /\ \/ \E raw \in BOOLEAN : op = [name |-> "invoke", raw |-> raw, argv |-> <<>>]
       \/ /\ Len(calls) = 1
          /\ \E names \in UnpackNames : op = [name |-> "unpack", raw |-> TRUE, argv |-> names]
    /\ pc = [i \in 1..Len(calls) |-> "created"]
    /\ cmd = [i \in 1..Len(calls) |-> NoCommand]
    /\ now = 0
    /\ sent = [i \in 1..Len(calls) |-> <<>>]
    /\ ipc = "init"
    /\ seen = <<>>
    /\ outcome = Pending
    /\ ext = [kind |-> "none", handle |-> NoHandle, exc |-> NoExc]

\* -------------------------------------------------------- handle extension
GetattrInPlace(item) ==
    /\ ipc = "init"
    /\ handle' = [handle EXCEPT !.command = item]
    /\ ext' = ProxyMethod__getattr__(handle, item, 1)
    /\ ipc' = "extended"
    /\ UNCHANGED <<op, calls, pc, cmd, now, sent, seen, outcome>>

\* handle.<item>
Getattr(item) ==
    /\ ipc = "init"
    /\ ext' = ProxyMethod__getattr__(handle, item, 1)
    /\ ipc' = "extended"
    /\ UNCHANGED <<handle, op, calls, pc, cmd, now, sent, seen, outcome>>

\* ------------------------------------------------------------- __call__
\* invoke awaits its argument, or wraps every argument in a task and gathers
\* them: each coroutine runs up to its first suspension, inside send_command
\* or, when wait_for does not let send_command run, inside wait_for.
InvokeStart ==
    /\ ipc = "init"
    /\ ipc' = "gather"
    /\ pc' = [i \in 1..N |-> "sending"]
    /\ sent' = [i \in 1..N |->
                 IF SendStarts(calls[i].timeout)
                 THEN <<SendCommand(handle, CallArgs(i),
                                    Kwargs(CallKeywords(calls[i], i)), "None")>>
                 ELSE <<>>]
    /\ UNCHANGED <<handle, op, calls, cmd, now, seen, outcome, ext>>

\* send_command returns the Command within the timeout of wait_for
SendComplete(i) ==
    /\ pc[i] = "sending"
    /\ WithinTimeout(now, calls[i].timeout)
    /\ cmd' = [cmd EXCEPT ![i] = [status |-> "RUNNING", replies |-> <<>>]]
    /\ pc' = [pc EXCEPT ![i] = AfterSend(calls[i].blocking)]
    /\ UNCHANGED <<handle, op, calls, now, sent, ipc, seen, outcome, ext>>

\* wait_for cancels send_command and raises TimeoutError
SendTimeout(i) ==
    /\ pc[i] = "sending"
    /\ now >= calls[i].timeout
    /\ pc' = [pc EXCEPT ![i] = "raised"]
    /\ UNCHANGED <<handle, op, calls, cmd, now, sent, ipc, seen, outcome, ext>>

\* `await command' resumes once the command is done
CommandAwaited(i) ==
    /\ pc[i] = "awaiting"
    /\ is_done(cmd[i].status)
    /\ pc' = [pc EXCEPT ![i] = "returned"]
    /\ UNCHANGED <<handle, op, calls, cmd, now, sent, ipc, seen, outcome, ext>>

\* Time passes; a due timer of wait_for fires before the clock moves on.  The
\* clock is followed until one tick past the calls' timeout.
Tick ==
    /\ {i \in 1..N : now <= calls[i].timeout} # {}
    /\ {i \in 1..N : pc[i] \in {"sending", "awaiting"}} # {}
    /\ \A i \in 1..N : pc[i] = "sending" => now < calls[i].timeout
    /\ now' = now + 1
    /\ UNCHANGED <<handle, op, calls, pc, cmd, sent, ipc, seen, outcome, ext>>

\* ------------------------------------------------------------ the remote
\* The remote is followed until invoke has read the reply handles.
\* non-terminal replies sent so far to the commands 1..k
RECURSIVE InterimSent(_)
InterimSent(k) ==
    IF k = 0 THEN 0
    ELSE InterimSent(k - 1)
         + IF is_done(cmd[k].status) THEN Len(cmd[k].replies) - 1 ELSE Len(cmd[k].replies)

RemoteReply(i) ==
    /\ seen = <<>>
    /\ cmd[i].status = "RUNNING"
    /\ InterimSent(N) < MaxInterim
    /\ cmd' = [cmd EXCEPT ![i].replies = Append(@, InterimBody)]
    /\ UNCHANGED <<handle, op, calls, pc, now, sent, ipc, seen, outcome, ext>>

RemoteFinish(i) ==
    /\ seen = <<>>
    /\ cmd[i].status = "RUNNING"
    /\ \/ \E body \in OkBodies(N) :
            cmd' = [cmd EXCEPT ![i] = [status |-> "DONE", replies |-> Append(@.replies, body)]]
       \/ \E body \in FailBodies(N) :
            cmd' = [cmd EXCEPT ![i] = [status |-> "FAILED", replies |-> Append(@.replies, body)]]
    /\ UNCHANGED <<handle, op, calls, pc, now, sent, ipc, seen, outcome, ext>>

\* ------------------------------------------------------- invoke and unpack
Aggregate(ret) ==
    IF op.name = "unpack" THEN unpack(ret[1], op.argv) ELSE invoke(ret, op.raw)

\* every awaited call has returned its reply handle: invoke reads them
InvokeFinish ==
    /\ ipc = "gather"
    /\ \A i \in 1..N : pc[i] = "returned"
    /\ seen' = cmd
    /\ outcome' = Aggregate(cmd)
    /\ ipc' = "done"
    /\ UNCHANGED <<handle, op, calls, pc, cmd, now, sent, ext>>

GatherCancelsSiblings(p) ==
    [i \in 1..Len(p) |-> IF p[i] \in {"sending", "awaiting"} THEN "cancelled" ELSE p[i]]

\* asyncio.gather without return_exceptions, when a task raises: the tasks
\* still running are left as they are
GatherOnException(p) == p

\* an awaited call raised: the exception leaves invoke as it is
InvokeRaise ==
    /\ ipc = "gather"
    /\ {i \in 1..N : pc[i] = "raised"} # {}
    /\ outcome' = Raised(TimeoutError)
    /\ ipc' = "done"
    /\ pc' = GatherOnException(pc)
    /\ UNCHANGED <<handle, op, calls, cmd, now, sent, seen, ext>>

Next ==
    \/ \E item \in AttrNames : Getattr(item)
    \/ InvokeStart
    \/ \E i \in 1..N : SendComplete(i)
    \/ \E i \in 1..N : SendTimeout(i)
    \/ \E i \in 1..N : CommandAwaited(i)
    \/ Tick
    \/ \E i \in 1..N : RemoteReply(i)
    \/ \E i \in 1..N : RemoteFinish(i)
    \/ InvokeFinish
    \/ InvokeRaise

Spec == Init /\ [][Next]_vars

\* ------------------------------------------------------------------ claims
InvokeRead == ipc = "done" /\ Len(seen) = N

FanOutRead == InvokeRead /\ op.name = "invoke" /\ N > 1

SingleRead == InvokeRead /\ op.name = "invoke" /\ N = 1

UnpackRead == InvokeRead /\ op.name = "unpack"

AggregateRaised == FanOutRead /\ outcome.kind = "raise" /\ outcome.exc.cls = "ProxyException"

\* C1: a fan-out whose calls all completed with a reply status, at least one
\* of them failed (at any position), raises the ProxyException aggregate and
\* returns no result list.
C1_AnyFailureRaises ==
    ( /\ FanOutRead
      /\ \A i \in 1..N : is_done(seen[i].status)
      /\ \E i \in 1..N : did_fail(seen[i].status) )
    => AggregateRaised

C3_FanOutResultsInOrder ==
    ( /\ FanOutRead
      /\ \A i \in 1..N : ~did_fail(seen[i].status) )
    => /\ outcome.kind = "return"
       /\ outcome.val.cls = "list"
       /\ Len(outcome.val.items) = N
       /\ \A i \in 1..N : /\ Len(seen[i].replies) > 0
                          /\ outcome.val.items[i] = BodyResult(seen[i], op.raw)

\* C4: a blocking call whose command is not done within `timeout' of the call
\* has failed with Timeout; it is not left pending past the bound.
C4_TimeoutBoundsWait ==
    \A i \in 1..N :
        ( /\ calls[i].blocking
          /\ pc[i] # "created"
          /\ now > calls[i].timeout
          /\ ~is_done(cmd[i].status) )
        => pc[i] = "raised"

\* C5: a single-argument invoke raises the failure decoded from the `error'
\* field of the last reply body when the reply handle it awaited has failed,
\* and otherwise returns the last reply body, as a dict when raw and as a
\* DictObject when not.
C5_SingleInvoke ==
    SingleRead =>
        IF did_fail(seen[1].status)
        THEN /\ outcome.kind = "raise"
             /\ Len(seen[1].replies) > 0
             /\ HasKey(LastBody(seen[1]), "error")
             /\ outcome.exc = _stringToException(StrOf(Lookup(LastBody(seen[1]), "error")))
        ELSE /\ outcome.kind = "return"
             /\ Len(seen[1].replies) > 0
             /\ outcome.val = BodyResult(seen[1], op.raw)

\* C6: attribute access on a _ProxyMethod returns a new _ProxyMethod whose
\* address is the handle's address with the name appended.
C6_GetattrExtends ==
    ipc = "extended" =>
        /\ ext.kind = "handle"
        /\ ext.handle.amqpc = handle.amqpc
        /\ \E item \in AttrNames :
             ext.handle.command = <<handle.consumer, handle.command, item>>

\* C7: unpack of a successful reply with two or more fields, asked for k >= 1
\* field names, returns the values of exactly those fields in the order asked.
C7_UnpackNamed ==
    ( /\ UnpackRead
      /\ seen[1].status = "DONE"
      /\ Len(LastBody(seen[1])) >= 2
      /\ Len(op.argv) >= 1 )
    => outcome = Returned(PyList([i \in 1..Len(op.argv) |->
                                    Lookup(LastBody(seen[1]), op.argv[i])]))

\* an error string that evaluates to an exception value
Recognized(errstr) == ~Eval(errstr).raised /\ IsException(Eval(errstr).v)

\* C8: the failure a single invoke raises for an error string that is no
\* recognized failure kind carries the error string verbatim.
C8_UnrecognizedKeepsText ==
    ( /\ SingleRead
      /\ did_fail(seen[1].status)
      /\ HasKey(LastBody(seen[1]), "error")
      /\ ~Recognized(StrOf(Lookup(LastBody(seen[1]), "error"))) )
    => /\ outcome.kind = "raise"
       /\ \E j \in 1..Len(outcome.exc.args) :
            outcome.exc.args[j] = StrOf(Lookup(LastBody(seen[1]), "error"))

\* C9: a blocking call returns only once its command is done, and returns
\* that command; a non-blocking call returns the command as soon as it is
\* sent, still running.
C9_BlockingWaits ==
    [][\A i \in 1..N :
         (pc[i] # "returned" /\ pc'[i] = "returned") =>
            IF calls[i].blocking
            THEN is_done(cmd[i].status) /\ cmd'[i] = cmd[i]
            ELSE pc[i] = "sending" /\ cmd'[i].status = "RUNNING"]_vars

C9_Witness ==
    \E i, j \in 1..N :
        /\ calls[i].blocking /\ pc[i] = "returned" /\ is_done(cmd[i].status)
        /\ calls[j].blocking /\ pc[j] = "awaiting" /\ cmd[j].status = "RUNNING"
        /\ now > 0

\* C10: unpack of a successful reply returns None for an empty body, the bare
\* value for a body of one field, and all values in key order for a body of
\* two or more fields when no names are asked for.
C10_UnpackShapes ==
    (UnpackRead /\ seen[1].status = "DONE") =>
        LET d == LastBody(seen[1]) IN
        /\ Len(d) = 0 => outcome = Returned(NoneVal)
        /\ Len(d) = 1 => outcome = Returned(d[1][2])
        /\ (Len(d) >= 2 /\ op.argv = <<>>) =>
               outcome = Returned(PyList([i \in 1..Len(d) |-> d[i][2]]))

C10_Witness ==
    /\ UnpackRead
    /\ seen[1].status = "DONE"
    /\ Len(LastBody(seen[1])) = 3
    /\ op.argv = <<>>
    /\ outcome.kind = "return"
    /\ Len(outcome.val.items) = 3

\* C11: a call made with timeout 0 never obtains a reply handle and never
\* returns; once it is started its timeout has expired and its send cannot
\* complete, so that its only continuation is to raise Timeout, and the
\* invoke or unpack awaiting it ends with Timeout and nothing else.
C11_ZeroTimeoutRaisesTimeout ==
    \A i \in 1..N :
        calls[i].timeout = 0 =>
            /\ pc[i] \in {"created", "sending", "raised"}
            /\ cmd[i] = NoCommand
            /\ pc[i] = "sending" =>
                   now >= calls[i].timeout /\ ~WithinTimeout(now, calls[i].timeout)
            /\ ipc = "done" => outcome = Raised(TimeoutError)

C11_Witness ==
    /\ calls[1].timeout = 0
    /\ pc[1] = "raised"
    /\ ipc = "done"
    /\ outcome = Raised(TimeoutError)

\* view shows the data value src: field by field for a mapping, index by
\* index for a sequence, the value itself for anything else
RECURSIVE SameAtEveryPath(_, _)
SameAtEveryPath(src, view) ==
    CASE src.cls = "dict" ->
           /\ view.cls = "DictObject"
           /\ Len(view.items) = Len(src.items)
           /\ \A k \in 1..Len(src.items) :
                /\ view.items[k][1] = src.items[k][1]
                /\ SameAtEveryPath(src.items[k][2], view.items[k][2])
      [] src.cls = "list" ->
           /\ view.cls = "list"
           /\ Len(view.items) = Len(src.items)
           /\ \A k \in 1..Len(src.items) :
                IF src.items[k].cls = "dict"
                THEN SameAtEveryPath(src.items[k], view.items[k])
                ELSE view.items[k] = src.items[k]
      [] OTHER -> view = src

\* C12: the DictObject a single invoke returns for a reply body has one field
\* per key of the body, in the body's order, and at every path the field
\* holds the body's value: a nested mapping is a DictObject with the same
\* keys and values, a sequence is a sequence of the same length whose mapping
\* elements are DictObjects and whose other elements are unchanged, and a
\* scalar is unchanged.
C12_DictObjectMirrorsBody ==
    ( /\ SingleRead
      /\ ~op.raw
      /\ outcome.kind = "return" )
    => SameAtEveryPath(PyDict(LastBody(seen[1])), outcome.val)

C12_Witness ==
    /\ SingleRead
    /\ ~op.raw
    /\ outcome.kind = "return"
    /\ LastBody(seen[1]) = FramesBody
    /\ outcome.val.items[1][2].items[1].cls = "DictObject"
    /\ outcome.val.items[1][2].items[1].items[2][2].items[1].cls = "DictObject"
    /\ outcome.val.items[1][2].items[2] = PyStr("dark")

\* the error string of the failed reply handle a single invoke decoded
DecodedString == StrOf(Lookup(LastBody(seen[1]), "error"))

SingleDecoded ==
    /\ SingleRead
    /\ did_fail(seen[1].status)
    /\ Len(seen[1].replies) > 0
    /\ HasKey(LastBody(seen[1]), "error")

\* C13: decoding an error string has no effect besides the failure value it
\* yields, and for an error string that is no recognized failure kind that
\* value is the plain-message failure carrying the string.
C13_DecodeRunsNoCode ==
    SingleDecoded =>
        /\ EvalEffects(DecodedString) = {}
        /\ ~Recognized(DecodedString) =>
               _stringToException(DecodedString) = ProxyPlainMessagException(DecodedString)

\* C14: in a fan-out every call has been started by the time invoke awaits
\* any of them, and invoke has neither returned nor raised while a call is
\* still sending or awaiting its command.
C14_FanOutWaitsForAll ==
    (op.name = "invoke" /\ N > 1) =>
        /\ ipc = "gather" => \A i \in 1..N : pc[i] # "created"
        /\ ipc = "done" => \A i \in 1..N : pc[i] \in {"returned", "raised"}

\* C15: the position of a call's coroutine changes only by that call's own
\* steps: it is started, its send completes, its own timeout expires, or the
\* command it awaits is done.  A Timeout raised by a sibling, and its passage
\* through gather and invoke, leave the call where it is.
C15_TimeoutLeavesSiblings ==
    [][\A i \in 1..N :
         pc'[i] # pc[i] =>
            \/ pc[i] = "created" /\ pc'[i] = "sending"
            \/ pc[i] = "sending" /\ pc'[i] = AfterSend(calls[i].blocking)
                                 /\ now < calls[i].timeout
            \/ pc[i] = "sending" /\ pc'[i] = "raised" /\ now >= calls[i].timeout
            \/ pc[i] = "awaiting" /\ pc'[i] = "returned" /\ is_done(cmd[i].status)]_vars

C15_Witness ==
    \E i, j \in 1..N :
        /\ ipc = "done"
        /\ outcome = Raised(TimeoutError)
        /\ pc[j] = "raised"
        /\ pc[i] = "awaiting"
        /\ is_done(cmd[i].status)
        /\ ENABLED CommandAwaited(i)

\* the arguments call i asks the transport to send
OwnArguments(i) == [k \in 1..Len(CallArgs(i)) |-> <<CallArgs(i)[k]>>] \o Opts(CallKwargs(i))

\* C16: no step changes the handle, neither an attribute access on it nor
\* any step of the calls made on it; every command a call has sent went to
\* the handle's consumer under the handle's command name through the
\* handle's transport, with the arguments of that call.
C16_HandleUnchanged ==
    [][/\ handle' = handle
       /\ \A i \in 1..N : \A k \in 1..Len(sent'[i]) :
            /\ sent'[i][k].amqpc = handle.amqpc
            /\ sent'[i][k].consumer = handle.consumer
            /\ sent'[i][k].command = lower(handle.command)
            /\ sent'[i][k].args = OwnArguments(i)]_vars

C16_Witness ==
    /\ N >= 2
    /\ Len(sent[1]) = 1
    /\ Len(sent[2]) = 1
    /\ sent[1][1].args # sent[2][1].args
    /\ sent[1][1].consumer = sent[2][1].consumer
    /\ pc[1] = "sending"
    /\ pc[2] = "returned"
    /\ handle = ProxyMethod("amqpc", "lvm.sci.agcam", "Expose")

\* C17 as stated: every call that has been made has handed exactly one
\* command to the transport, however the call ended.
C17_OneSendPerCall ==
    \A i \in 1..N : pc[i] # "created" => Len(sent[i]) = 1

\* C17, amended: a call hands at most one command to the transport and never
\* sends again, whether it ends in Timeout or its command fails: exactly one
\* when its timeout is positive, none when its timeout is 0, and none before
\* it is made.
C17_AtMostOneSend ==
    \A i \in 1..N :
        Len(sent[i]) = IF pc[i] # "created" /\ calls[i].timeout > 0 THEN 1 ELSE 0

C17_Witness ==
    \E i, j \in 1..N :
        /\ pc[i] = "raised" /\ Len(sent[i]) = 1
        /\ pc[j] = "returned" /\ cmd[j].status = "FAILED" /\ Len(sent[j]) = 1
        /\ ipc = "done"

\* the address of the handle Proxy(consumer).name, as a sequence of segments
Address(h) == <<h.consumer, h.command>>

\* a dotted name, given by its segments, in lower case
JoinLower(segs) == [k \in 1..Len(segs) |-> lower(segs[k])]

C19_ReadsOnlyDoneHandles ==
    InvokeRead => \A i \in 1..N : is_done(seen[i].status)

\* C20: unpack of a command that failed raises what a single-argument invoke
\* of the same reply handle raises, raw or not, whatever names were asked for.
C20_UnpackRaisesAsInvoke ==
    (UnpackRead /\ did_fail(seen[1].status)) =>
        /\ outcome.kind = "raise"
        /\ outcome = InvokeSingle(seen[1], TRUE)
        /\ outcome = InvokeSingle(seen[1], FALSE)

C20_Witness ==
    /\ UnpackRead
    /\ did_fail(seen[1].status)
    /\ op.argv = <<"y", "x">>
    /\ outcome.kind = "raise"
    /\ outcome.exc = PyExc("ValueError", <<"bad exposure">>)

====
